---- MODULE Spec2Model ----
(***************************************************************************)
(* BatteryAlertTool (src/src/App.jsx, the component of lines 335-685; the  *)
(* component of lines 4-330 is an earlier copy with the same logic).       *)
(*                                                                         *)
(* The React state of the component is the state of the model.  A render   *)
(* and the re-run of the monitoring effect that follows a state change are *)
(* taken as part of the step that changed the state, so the closure of the *)
(* interval callback always holds the committed state.  Time is counted in *)
(* units of 1000 ms; battery levels are the percentages bat.level * 100,   *)
(* taken as integers; the quotients of the estimate are exact.             *)
(***************************************************************************)
EXTENDS Integers, Sequences, FiniteSets, TLC

\* ---------------------------------------------------------------- bounds
\* The clock stops at MaxTime (Date.now() is unbounded in the program).
MaxTime == 16
\* The number of battery events (levelchange, chargingchange) and of
\* changes of the wall clock in a run.
MaxEvents == 2
\* The clock bound of the long charging run of WindowSpec.
MaxTimeW == 106

\* ------------------------------------------------------ program constants
\* <input type="range" min="50" max="100">
MinTarget == 50
MaxTarget == 100
\* useState(90)
InitialTarget == 90
\* setInterval(..., 2000), in units of 1000 ms
Interval == 2
\* if (newData.length > 50) newData.shift()
Capacity == 50
\* if (chargingData.length > 5)
MinHistory == 5
\* chargingData.slice(-10)
RecentCount == 10
\* timeDiff = ms / 1000 / 60: the units of 1000 ms in a minute
SecPerMin == 60

\* ------------------------------------------------------- the input sets
\* Battery levels the hardware reports (percent).
Levels == {89, 90}
\* Positions the user drags the target slider to; the range input keeps
\* its value within min..max.
SliderInputs == {49, 50, 100, 101}

\* useState(null): a state that is null or one value is a sequence of
\* length 0 or 1.
Null == <<>>
Some(x) == <<x>>

VARIABLES
    battery,          \* useState(null): Null or Some([level, charging])
    targetPercentage, \* useState(90)
    isMonitoring,     \* useState(false)
    alertTriggered,   \* useState(false)
    chargingData,     \* useState([]): sequence of [level, time]
    estimatedTime,    \* useState(null): Null or Some(minutes)
    notification,     \* useState('')
    batteryInit,      \* initBattery: "pending", "ready" or "unsupported"
    now,              \* Date.now(), in units of 1000 ms
    timer,            \* time left until the interval of the effect fires
    \* observers: what the component did, recorded for the properties
    last,             \* the handler that ran last, and the branch it took
    requested,        \* the slider position the user last asked for
    episodeAlerts,    \* alerts raised since the last start or unplugged tick
    episodeReached,   \* a tick since then saw charging at or above target
    prevAlerted,      \* an earlier charging episode of this session alerted
    pushed,           \* every sample pushed since the window was last reset
    tickAt,           \* when the interval callback last ran in this session
    events            \* the battery events and clock changes so far

vars == <<battery, targetPercentage, isMonitoring, alertTriggered,
          chargingData, estimatedTime, notification, batteryInit, now, timer,
          last, requested, episodeAlerts, episodeReached, prevAlerted, pushed,
          tickAt, events>>

session == <<isMonitoring, alertTriggered, chargingData, estimatedTime>>
observers == <<episodeAlerts, episodeReached, prevAlerted, pushed, tickAt>>


\* ------------------------------------------------------ pure functions
Level == battery[1].level
Charging == battery[1].charging

\* <input type="range" min="50" max="100">: the value the control hands to
\* onChange for a requested position is kept within min..max.
SliderValueUnclamped(raw) == raw
SliderValue(raw) ==
    IF raw < MinTarget THEN MinTarget
    ELSE IF raw > MaxTarget THEN MaxTarget
    ELSE raw

\* The updater of setChargingData: append, then drop the oldest past 50.
PushDropsNewest(prev, sample) ==
    LET newData == Append(prev, sample)
    IN  IF Len(newData) > Capacity THEN SubSeq(newData, 1, Capacity) ELSE newData
Push(prev, sample) ==
    LET newData == Append(prev, sample)
    IN  IF Len(newData) > Capacity THEN Tail(newData) ELSE newData

\* Array.prototype.slice(-n): the last n elements, or all of them.
Slice(data, n) ==
    IF Len(data) <= n THEN data ELSE SubSeq(data, Len(data) - n + 1, Len(data))

\* recentData = chargingData.slice(-10); the differences are taken between
\* the current reading and recentData[0].  TimeDiff is in units of 1000 ms:
\* the timeDiff of the code is TimeDiff / 60 minutes.
RecentData(data) == Slice(data, RecentCount)
TimeDiff(data, time) == time - RecentData(data)[1].time
LevelDiff(data, level) == level - RecentData(data)[1].level

\* chargeRate = levelDiff / timeDiff; chargeRate > 0.  A zero timeDiff makes
\* the quotient Infinity, -Infinity or NaN, by the sign of levelDiff.
RatePositive(levelDiff, timeDiff) ==
    \/ timeDiff >= 0 /\ levelDiff > 0
    \/ timeDiff < 0 /\ levelDiff < 0

\* Math.ceil(a / b), b > 0
FloorDiv(a, b) == a \div b
CeilDiv(a, b) == -((-a) \div b)

\* Math.ceil(remainingPercent / chargeRate) for a positive chargeRate, with
\* chargeRate = levelDiff / (timeDiff / 60); remaining / Infinity is 0.
EstimatedMinutes(remaining, levelDiff, timeDiff) ==
    IF timeDiff = 0 THEN 0
    ELSE IF levelDiff > 0
         THEN CeilDiv(remaining * timeDiff, SecPerMin * levelDiff)
         ELSE CeilDiv(remaining * (-timeDiff), SecPerMin * (-levelDiff))

\* ---------------------------------------------------------------- Init
Init ==
    /\ battery = Null
    /\ targetPercentage = InitialTarget
    /\ isMonitoring = FALSE
    /\ alertTriggered = FALSE
    /\ chargingData = <<>>
    /\ estimatedTime = Null
    /\ notification = ""
    /\ batteryInit = "pending"
    /\ now = 0
    /\ timer = Interval
    /\ last = "mount"
    /\ requested = InitialTarget
    /\ episodeAlerts = 0
    /\ episodeReached = FALSE
    /\ prevAlerted = FALSE
    /\ pushed = <<>>
    /\ tickAt = Null
    /\ events = 0

\* The effect of lines 394-432 holds an interval exactly in these states:
\* it returns early if (!isMonitoring || !battery), and its cleanup clears
\* the interval when one of its dependencies changes.
IntervalNeverCleared == battery # Null
IntervalActive == isMonitoring /\ battery # Null


\* ------------------------------------------------- battery (lines 347-384)
Reading(l, c) == Some([level |-> l, charging |-> c])

\* initBattery: navigator.getBattery() resolves; setBattery(first reading).
InitBattery(l, c) ==
    /\ batteryInit = "pending"
    /\ batteryInit' = "ready"
    /\ battery' = Reading(l, c)
    /\ timer' = Interval
    /\ last' = "battery"
    /\ UNCHANGED <<targetPercentage, session, notification, now, requested,
                   observers, events>>

\* initBattery: no getBattery in navigator, or it rejects.
InitBatteryUnsupported ==
    /\ batteryInit = "pending"
    /\ batteryInit' = "unsupported"
    /\ notification' = "Battery API not supported"
    /\ last' = "unsupported"
    /\ UNCHANGED <<battery, targetPercentage, session, now, timer, requested,
                   observers, events>>

\* updateBattery, on levelchange or chargingchange: setBattery(new object).
\* battery is a dependency of the monitoring effect and every setBattery
\* installs a new object, so a running interval is cleared and set again.
UpdateBattery(l, c) ==
    /\ batteryInit = "ready"
    /\ Reading(l, c) # battery
    /\ events < MaxEvents
    /\ events' = events + 1
    /\ battery' = Reading(l, c)
    /\ timer' = Interval
    /\ last' = "battery"
    /\ UNCHANGED <<targetPercentage, session, notification, batteryInit, now,
                   requested, observers>>

\* --------------------------------------------- target slider (571-579)
\* onChange={(e) => setTargetPercentage(Number(e.target.value))},
\* disabled={isMonitoring}
SliderAlwaysEnabled == TRUE
SliderEnabled == ~isMonitoring

ChangeTarget(raw) ==
    /\ SliderEnabled
    /\ targetPercentage' = SliderValue(raw)
    /\ requested' = raw
    /\ last' = "target"
    /\ UNCHANGED <<battery, session, notification, batteryInit, now, timer,
                   observers, events>>

\* ------------------------------------------- startMonitoring (475-495)
\* if (!battery) { setNotification(...); return; }
StartAlwaysAllowed == TRUE
StartAllowed == battery # Null

\* setChargingData([])
StartChargingDataKept == chargingData
StartChargingData == <<>>

\* The button "Start Protection" is rendered while !isMonitoring.
startMonitoring ==
    /\ ~isMonitoring
    /\ IF ~StartAllowed
       THEN /\ notification' = "Battery API not available"
            /\ last' = "startFailed"
            /\ UNCHANGED <<battery, targetPercentage, session, batteryInit,
                           now, timer, requested, observers, events>>
       ELSE /\ isMonitoring' = TRUE
            /\ alertTriggered' = FALSE
            /\ chargingData' = StartChargingData
            /\ notification' = "Monitoring active"
            /\ timer' = Interval
            /\ last' = "start"
            /\ episodeAlerts' = 0
            /\ episodeReached' = FALSE
            /\ prevAlerted' = FALSE
            /\ pushed' = StartChargingData
            /\ tickAt' = Null
            /\ UNCHANGED <<battery, targetPercentage, estimatedTime,
                           batteryInit, now, requested, events>>

\* -------------------------------------------- stopMonitoring (497-502)
\* setEstimatedTime(null)
StopEstimatedTimeKept == estimatedTime
StopEstimatedTime == Null

\* setIsMonitoring(false)
StopToggles == ~isMonitoring
StopIsMonitoring == FALSE

\* The body of stopMonitoring.
StopHandler ==
    /\ isMonitoring' = StopIsMonitoring
    /\ notification' = "Monitoring stopped"
    /\ estimatedTime' = StopEstimatedTime
    /\ timer' = Interval
    /\ last' = IF isMonitoring THEN "stop" ELSE "stop:idle"
    /\ UNCHANGED <<battery, targetPercentage, alertTriggered, chargingData,
                   batteryInit, now, requested, observers, events>>

\* The button "Stop Monitoring" is rendered while isMonitoring.
stopMonitoring ==
    /\ isMonitoring
    /\ StopHandler

\* stopMonitoring called on a session that is not running; the rendered
\* page offers no such call, it is the stop() of an idle session.
stopMonitoringIdle ==
    /\ ~isMonitoring
    /\ StopHandler


\* ----------------------- the interval callback of the effect (397-429)
\* if (battery.charging && currentLevel < targetPercentage)
PushesSampleAtAnyLevel == Charging
PushesSampleUnplugged == Level < targetPercentage
PushesSample == Charging /\ Level < targetPercentage

\* if (chargingData.length > 5), inside the branch above; chargingData is
\* the array of the render that set the interval, without the new sample.
ComputesRate == PushesSample /\ Len(chargingData) > MinHistory

\* if (chargeRate > 0)
Estimates ==
    /\ ComputesRate
    /\ RatePositive(LevelDiff(chargingData, Level), TimeDiff(chargingData, now))

\* if (currentLevel >= targetPercentage && battery.charging && !alertTriggered)
FiresAlert == Level >= targetPercentage /\ Charging /\ ~alertTriggered

\* setChargingData(prev => ...)
TickChargingData ==
    IF PushesSample
    THEN Push(chargingData, [level |-> Level, time |-> now])
    ELSE chargingData

\* setEstimatedTime(estimatedMinutes)
TickEstimatedTimeCleared ==
    IF Estimates
    THEN Some(EstimatedMinutes(targetPercentage - Level,
                               LevelDiff(chargingData, Level),
                               TimeDiff(chargingData, now)))
    ELSE IF ComputesRate THEN Null ELSE estimatedTime
TickEstimatedTime ==
    IF Estimates
    THEN Some(EstimatedMinutes(targetPercentage - Level,
                               LevelDiff(chargingData, Level),
                               TimeDiff(chargingData, now)))
    ELSE estimatedTime

\* triggerAlert: setAlertTriggered(true); then
\* if (!battery.charging) setAlertTriggered(false)
TickAlertTriggeredClearedBelowTarget ==
    IF ~Charging \/ Level < targetPercentage THEN FALSE
    ELSE IF FiresAlert THEN TRUE
    ELSE alertTriggered
TickAlertTriggeredNeverSet == IF ~Charging THEN FALSE ELSE alertTriggered
TickAlertTriggeredNeverReset == IF FiresAlert THEN TRUE ELSE alertTriggered
TickAlertTriggered ==
    IF ~Charging THEN FALSE
    ELSE IF FiresAlert THEN TRUE
    ELSE alertTriggered

\* The branch the callback takes.
TickBranch ==
    IF ~Charging THEN (IF alertTriggered THEN "tick:reset" ELSE "tick:unplugged")
    ELSE IF FiresAlert THEN "tick:alert"
    ELSE IF ~PushesSample THEN "tick:alerted"
    ELSE IF Estimates THEN "tick:estimate"
    ELSE IF ComputesRate THEN "tick:stalled"
    ELSE "tick:waiting"

Tick ==
    /\ IntervalActive
    /\ timer = 0
    /\ chargingData' = TickChargingData
    /\ estimatedTime' = TickEstimatedTime
    /\ alertTriggered' = TickAlertTriggered
    /\ notification' = IF FiresAlert THEN "It's time to unplug" ELSE notification
    /\ timer' = Interval
    /\ last' = TickBranch
    /\ episodeAlerts' = IF ~Charging THEN 0
                        ELSE IF FiresAlert THEN episodeAlerts + 1
                        ELSE episodeAlerts
    /\ episodeReached' = IF ~Charging THEN FALSE
                         ELSE episodeReached \/ Level >= targetPercentage
    /\ prevAlerted' = IF ~Charging THEN prevAlerted \/ episodeAlerts > 0
                      ELSE prevAlerted
    /\ pushed' = IF PushesSample
                 THEN Append(pushed, [level |-> Level, time |-> now])
                 ELSE pushed
    /\ tickAt' = Some(now)
    /\ UNCHANGED <<battery, targetPercentage, isMonitoring, batteryInit, now,
                   requested, events>>

\* ----------------------------------------------------------------- time
\* 1000 ms pass while an interval is pending: it comes closer to firing,
\* and fires (Tick) before more time passes.  While no interval is pending
\* nothing reads the clock, and startMonitoring empties the window before
\* the clock is read again, so the clock is left where it stands.
Elapse(limit) ==
    /\ IntervalActive
    /\ now < limit
    /\ timer > 0
    /\ now' = now + 1
    /\ timer' = timer - 1
    /\ UNCHANGED <<battery, targetPercentage, session, notification,
                   batteryInit, last, requested, observers, events>>

\* Date.now() is the wall clock, not the timer that drives setInterval: the
\* system (a time synchronisation, the user) sets it back to an earlier
\* reading.  The pending interval is not affected.
ClockBack ==
    /\ IntervalActive
    /\ events < MaxEvents
    /\ events' = events + 1
    /\ \E t \in 0..(now - 1) : now' = t
    /\ last' = "clock"
    /\ UNCHANGED <<battery, targetPercentage, session, notification,
                   batteryInit, timer, requested, observers>>

\* ------------------------------------------------------- specifications
Next ==
    \/ \E l \in Levels, c \in BOOLEAN : InitBattery(l, c)
    \/ InitBatteryUnsupported
    \/ \E l \in Levels, c \in BOOLEAN : UpdateBattery(l, c)
    \/ \E raw \in SliderInputs : ChangeTarget(raw)
    \/ startMonitoring
    \/ stopMonitoring
    \/ Tick
    \/ Elapse(MaxTime)

Spec == Init /\ [][Next]_vars

\* A long charge: a session that has just been started with the target at
\* 100 on a charging battery, the charger stays plugged and the level only
\* rises, below the target.
InitW ==
    /\ \E l \in Levels : l < MaxTarget /\ battery = Reading(l, TRUE)
    /\ targetPercentage = MaxTarget
    /\ isMonitoring = TRUE
    /\ alertTriggered = FALSE
    /\ chargingData = <<>>
    /\ estimatedTime = Null
    /\ notification = "Monitoring active"
    /\ batteryInit = "ready"
    /\ now = 0
    /\ timer = Interval
    /\ last = "start"
    /\ requested = MaxTarget
    /\ episodeAlerts = 0
    /\ episodeReached = FALSE
    /\ prevAlerted = FALSE
    /\ pushed = <<>>
    /\ tickAt = Null
    /\ events = 0

LevelRise ==
    \E l \in Levels :
        /\ Level < l
        /\ l < targetPercentage
        /\ UpdateBattery(l, TRUE)

NextW ==
    \/ LevelRise
    \/ Tick
    \/ Elapse(MaxTimeW)

WindowSpec == InitW /\ [][NextW]_vars

\* A charge during which the wall clock may be set back.
NextClock ==
    \/ LevelRise
    \/ Tick
    \/ Elapse(MaxTime)
    \/ ClockBack

ClockSpec == InitW /\ [][NextClock]_vars

\* The component with stopMonitoring callable in every state.
NextApi ==
    \/ Next
    \/ stopMonitoringIdle

ApiSpec == Init /\ [][NextApi]_vars


\* ================================================================ claims
\* The window as it was before the last sample was pushed, and the sample
\* the rate of that tick was measured against.
LastSample == pushed[Len(pushed)]
WindowBeforePush == Slice(SubSeq(pushed, 1, Len(pushed) - 1), Capacity)
ReferenceSample == RecentData(WindowBeforePush)[1]

\* C1 (single-fire): between two episode boundaries (a start, or a tick that
\* saw the charger unplugged) at most one alert is raised, and exactly one
\* is raised if and only if some tick of the episode saw the battery
\* charging at or above the target.
C1_SingleFire ==
    /\ episodeAlerts <= 1
    /\ episodeAlerts = 1 <=> episodeReached

\* A later tick of the same episode, still charging at or above the target,
\* has run after the alert and raised nothing.
C1_Witness == episodeAlerts = 1 /\ last = "tick:alerted"

\* C2 (re-arm): once an alert was raised and a later tick saw the charger
\* unplugged, a tick that sees the battery charging at or above the target
\* raises an alert again.
C2_ReArm == (prevAlerted /\ episodeReached) => episodeAlerts >= 1

C2_Witness == prevAlerted /\ last = "tick:alert"

\* C3: after every successful start the session is running, the window is
\* empty, no alert is recorded as fired and the estimate is null.
C3_StartResets ==
    last = "start" =>
        /\ isMonitoring
        /\ chargingData = <<>>
        /\ ~alertTriggered
        /\ estimatedTime = Null

\* A start that follows a session which ran for at least seven ticks.
C3_Witness == last = "start" /\ now >= 7 * Interval

C5_UnpluggedTickClearsWindow ==
    last \in {"tick:unplugged", "tick:reset"} => chargingData = <<>>

\* C6: a tick that computes a positive rate sets the estimate to
\* ceil((target - level) / rate): the least integer eta with
\* eta * rate >= target - level, which is >= 0; rate is
\* levelDiff / (timeDiff / 60) per minute.  With target 90, level 70 and a
\* rate of 0.5 per minute (1 percent in 120 units of time) it is 40.
C6_EtaIsCeil ==
    /\ EstimatedMinutes(90 - 70, 1, 2 * SecPerMin) = 40
    /\ last = "tick:estimate" =>
        /\ estimatedTime # Null
        /\ LET eta == estimatedTime[1]
               remaining == targetPercentage - LastSample.level
               levelDiff == LastSample.level - ReferenceSample.level
               timeDiff == LastSample.time - ReferenceSample.time
           IN  /\ eta >= 0
               /\ levelDiff > 0 /\ timeDiff > 0
               /\ eta * levelDiff * SecPerMin >= remaining * timeDiff
               /\ (eta - 1) * levelDiff * SecPerMin < remaining * timeDiff

\* The quotient is not an integer and has been rounded up.
C6_Witness ==
    /\ last = "tick:estimate"
    /\ estimatedTime # Null
    /\ estimatedTime[1] * (LastSample.level - ReferenceSample.level) * SecPerMin
         > (targetPercentage - LastSample.level)
             * (LastSample.time - ReferenceSample.time)

\* C7 (stalled): a tick on a charging battery below the target that
\* computes a rate <= 0 leaves the estimate as it was.
C7_StalledKeepsEstimate ==
    [][(/\ Tick
        /\ Charging /\ Level < targetPercentage
        /\ Len(chargingData) > MinHistory
        /\ TimeDiff(chargingData, now) > 0
        /\ LevelDiff(chargingData, Level) <= 0)
       => (estimatedTime' = estimatedTime /\ last' = "tick:stalled")]_vars

C7_Witness == last = "tick:stalled" /\ estimatedTime # Null

\* C8 (window bound): the window never holds more than 50 samples, and it
\* holds the most recently pushed ones, in the order they were pushed: all
\* of them up to 50 pushes, the last 50 after that.
C8_WindowBound ==
    /\ Len(chargingData) <= Capacity
    /\ chargingData = Slice(pushed, Capacity)
    /\ Len(pushed) > Capacity => Len(chargingData) = Capacity
    /\ \A i \in 1..(Len(chargingData) - 1) :
           chargingData[i].time < chargingData[i + 1].time

C8_Witness == Len(pushed) > Capacity + 1 /\ Len(chargingData) = Capacity

C10_NoBatteryNoSession ==
    /\ battery = Null =>
        /\ ~isMonitoring
        /\ ~IntervalActive
        /\ ~alertTriggered
        /\ chargingData = <<>>
        /\ estimatedTime = Null
        /\ now = 0
    /\ last = "startFailed" =>
        /\ ~isMonitoring
        /\ notification = "Battery API not available"

C10_Witness == last = "startFailed" /\ batteryInit = "unsupported"

\* C11: the target does not change while the session is running: no step
\* taken from a running state, the stop included, changes it.
C11_TargetFixedWhileRunning ==
    [][isMonitoring => targetPercentage' = targetPercentage]_vars

\* A session that has run through an alert at a target chosen on the slider,
\* with the slider left where the user put it.
C11_Witness ==
    /\ isMonitoring
    /\ last = "tick:alert"
    /\ targetPercentage = MinTarget
    /\ requested = MinTarget

\* C12 (idempotence of stop): stopMonitoring called on a session that is not
\* running changes no field of the session.
C12_StopIdempotent ==
    [][stopMonitoringIdle =>
        UNCHANGED <<isMonitoring, targetPercentage, alertTriggered,
                    estimatedTime, chargingData>>]_vars

\* A second stop of a session that was stopped while alerted, with samples
\* in its window.
C12_Witness ==
    /\ last = "stop:idle"
    /\ alertTriggered
    /\ chargingData # <<>>

\* C13 as stated: the history check and the rate use the window as it is
\* after the current sample was pushed: a tick that pushes a sample computes
\* no rate only if that window holds no more than the minimum history, and
\* a computed rate is measured against the first of the most recent
\* min(10, size) samples of that window.
C13_GateOnPostPushWindow ==
    last = "tick:waiting" => Len(chargingData) <= MinHistory
C13_SlopeOverPostPushWindow ==
    last \in {"tick:estimate", "tick:stalled"} =>
        ReferenceSample = RecentData(chargingData)[1]
C13_RateOverPostPushWindow ==
    /\ C13_GateOnPostPushWindow
    /\ C13_SlopeOverPostPushWindow

\* C14 as stated: whenever the charging state of the battery goes from false
\* to true while the session is running, no alert is recorded as fired (the
\* session is armed for the new charging episode).
C14_ArmedOnEveryPlugIn ==
    [][(/\ isMonitoring
        /\ battery # Null
        /\ ~battery[1].charging
        /\ battery'[1].charging)
       => ~alertTriggered']_vars

\* C15 as stated: while the session is running the interval callback runs at
\* a fixed cadence: each run comes exactly 2 units of time after the run
\* before it.
C15_FixedCadence ==
    [][(Tick /\ tickAt # Null) => now = tickAt[1] + Interval]_vars

\* C16 as stated: a tick that pushes a sample computes no rate exactly when
\* the window then holds fewer than 2 samples: the first such tick after a
\* start computes none and leaves the estimate null, the second and every
\* later one computes a rate.
C16_RateFromSecondSample ==
    /\ last = "tick:waiting" => (Len(chargingData) < 2 /\ estimatedTime = Null)
    /\ last \in {"tick:estimate", "tick:stalled"} => Len(chargingData) >= 2

\* C17 as stated: a tick that computes its rate over a sub-window whose
\* elapsed time is zero sets no estimate: the estimate stays as it was.
C17_ZeroElapsedNoEstimate ==
    [][(/\ Tick
        /\ ComputesRate
        /\ TimeDiff(chargingData, now) = 0)
       => estimatedTime' = estimatedTime]_vars

\* C18: in one run of the interval callback the push of a sample and the
\* alert exclude each other, and a run that finds the level at or above the
\* target leaves the window and the estimate as they were.
C18_PushExcludesAlert ==
    [][Tick =>
        /\ ~(chargingData' # chargingData /\ ~alertTriggered /\ alertTriggered')
        /\ Level >= targetPercentage =>
              (chargingData' = chargingData /\ estimatedTime' = estimatedTime)]_vars

\* An alert raised by a session whose window holds samples.
C18_Witness == last = "tick:alert" /\ chargingData # <<>>

\* C19 as stated: the record of a fired alert goes from set to cleared only
\* in a run of the interval callback that finds the battery not charging.
C19_ResetOnlyByUnpluggedTick ==
    [][(alertTriggered /\ ~alertTriggered') => (Tick /\ ~Charging)]_vars

\* C19 as amended: the record of a fired alert goes from set to cleared only
\* in a run of the interval callback that finds the battery not charging, or
\* in a start (stop leaves the record set); a run that finds the battery not
\* charging while no alert is recorded leaves it that way.
C19_ResetByUnpluggedTickOrStart ==
    [][/\ (alertTriggered /\ ~alertTriggered') =>
            ((Tick /\ ~Charging) \/ startMonitoring)
       /\ (Tick /\ ~Charging /\ ~alertTriggered) =>
            (~alertTriggered' /\ last' = "tick:unplugged")]_vars

\* A second run that finds the battery not charging, after the first one
\* cleared the record of an alert.
C19_Witness == last = "tick:unplugged" /\ prevAlerted /\ ~alertTriggered

\* C20: the window only gains a sample in a run of the interval callback
\* that finds the battery charging below the target, and the sample is the
\* reading of that run; so every sample held by a running session was
\* recorded while charging, at a level below the target.
C20_SamplesRecordedWhileCharging ==
    [][/\ (chargingData' # chargingData /\ chargingData' # <<>>) =>
            /\ Tick
            /\ Charging
            /\ Level < targetPercentage
            /\ chargingData'[Len(chargingData')] = [level |-> Level, time |-> now]
       /\ isMonitoring' =>
            \A i \in 1..Len(chargingData') :
                chargingData'[i].level < targetPercentage']_vars

\* A run that found the battery not charging has left the samples of the
\* window as they were.
C20_Witness ==
    /\ last = "tick:unplugged"
    /\ ~Charging
    /\ chargingData # <<>>

\* The values of last that record a run of the interval callback.
TickBranches ==
    {"tick:reset", "tick:unplugged", "tick:alert", "tick:alerted",
     "tick:estimate", "tick:stalled", "tick:waiting"}

\* C21: while the session is not running (before the first start, and from
\* a stop to the next start) the interval callback does not run: no step
\* taken from such a state is a tick or records a branch of the callback,
\* and every such step other than a successful start leaves the window, the
\* record of a fired alert and the estimate as they were, whatever the
\* battery reports.
C21_IdleFrame ==
    [][~isMonitoring =>
        /\ ~Tick
        /\ last' \notin TickBranches
        /\ ~isMonitoring' =>
              UNCHANGED <<chargingData, alertTriggered, estimatedTime>>]_vars

\* A stopped session with samples in its window, after which the battery
\* reported charging at or above the target: a run of the callback would
\* have raised the alert.
C21_Witness ==
    /\ ~isMonitoring
    /\ last = "battery"
    /\ chargingData # <<>>
    /\ Charging
    /\ Level >= targetPercentage
    /\ ~alertTriggered

\* C22: in every reachable state of a session that is not running the
\* estimate is null; an estimate is only there in a running session whose
\* interval callback has run since its start, so a session that has just
\* been started shows no estimate of an earlier one.
C22_IdleNoEstimate ==
    /\ ~isMonitoring => estimatedTime = Null
    /\ estimatedTime # Null => (isMonitoring /\ tickAt # Null)
    /\ last = "start" => estimatedTime = Null

\* A session stopped after the run of the callback that pushed its last
\* sample had computed a positive rate and written an estimate.
C22_Witness ==
    /\ last = "stop"
    /\ ~isMonitoring
    /\ Len(pushed) > MinHistory + 1
    /\ LastSample.level > ReferenceSample.level
    /\ LastSample.time > ReferenceSample.time

====
